---- MODULE Spec2Model ----
(***************************************************************************)
(* A model of the bets bot of src/main.py: the SQLite ledger (users, bets, *)
(* highest_bet), the in-memory pending_stakes table, the event handlers    *)
(* and slash commands as tasks that interleave at their await points, and  *)
(* the payout arithmetic of cmd_resolve on IEEE-754 doubles.               *)
(***************************************************************************)
EXTENDS Integers, Sequences, FiniteSets, Bags, TLC

VARIABLES users, bets, highest_bet, pending_stakes, tasks, last, event_state, nops,
          mode, calc

vars == <<users, bets, highest_bet, pending_stakes, tasks, last, event_state, nops,
          mode, calc>>

(***************************************************************************)
(* Program constants and the bounds of the model.                          *)
(***************************************************************************)
DEFAULT_START_BALANCE == 100

\* Most handlers suspended at an await point at the same time.
MaxTasks == 2
\* Most handler invocations (events and commands) in one behaviour of Spec,
\* where a handler runs to its end before the next begins.
MaxOps == 5
\* Most handler invocations in one behaviour of SpecRace, where handlers
\* interleave at their await points.
MaxRaceOps == 4
\* Longest bet list handed to the payout calculation of SpecCalc.
MaxCalcBets == 3

UserOrder == <<"u1", "u2">>
Users == {UserOrder[i] : i \in 1..Len(UserOrder)}
Events == {"m1", "m2"}
\* The user and the message of the interleaved handlers of SpecRace.
RaceUsers == {"u1"}
RaceEvents == {"m1"}
Choices == {1, 2}
\* str(payload.emoji): the two side symbols and any other emoji.
Emojis == {1, 2, 3}
\* message.content of a DM: text int() rejects, or text it parses to value.
Replies == {[numeric |-> FALSE, value |-> 0]} \cup
           {[numeric |-> TRUE, value |-> v] : v \in {0, 40, 60}}
\* /addcoins amount.
AddAmounts == {-100, 60}
\* /resolve winning_choice.
WinningChoices == {1, 2, 3}
\* Stakes of the bet lists of SpecCalc.
CalcStakes == {15, 22, 30, 40, 50, 100, 270, 960, 1000}

(***************************************************************************)
(* Python floats.  A double has a 53-bit significand: the leading bit hi   *)
(* and NLimbs limbs of LimbBits bits, with value (hi + 0.lo) * 2^e.        *)
(* int / int and int * float round to nearest, ties to even; int() drops   *)
(* the fraction.                                                           *)
(***************************************************************************)
LimbBits == 13
NLimbs == 4

RECURSIVE Pow2(_)
Pow2(k) == IF k = 0 THEN 1 ELSE 2 * Pow2(k - 1)

LimbBase == Pow2(LimbBits)

RECURSIVE BitLen(_)
BitLen(c) == IF c = 0 THEN 0 ELSE 1 + BitLen(c \div 2)

\* n / d = (n' / d') * 2^e with 1 <= n' / d' < 2.
RECURSIVE FNorm(_, _, _)
FNorm(n, d, e) ==
    IF n >= 2 * d THEN FNorm(n, 2 * d, e + 1)
    ELSE IF n < d THEN FNorm(2 * n, d, e - 1)
    ELSE <<n, d, e>>

\* Long division: k more limbs of r / d, and the remainder left.
RECURSIVE DivLimbs(_, _, _, _)
DivLimbs(r, d, k, acc) ==
    IF k = 0 THEN <<r, acc>>
    ELSE DivLimbs((r * LimbBase) % d, d, k - 1, Append(acc, (r * LimbBase) \div d))

\* lo + inc at the last limb: <<carry out of the first limb, the sum>>.
RECURSIVE AddUlp(_, _, _)
AddUlp(lo, i, inc) ==
    IF i = 0 THEN <<inc, lo>>
    ELSE LET t == lo[i] + inc
         IN AddUlp([lo EXCEPT ![i] = t % LimbBase], i - 1, t \div LimbBase)

\* total_losing / total_winning of two positive ints, correctly rounded.
FDiv(n, d) ==
    LET nd == FNorm(n, d, 0)
        q  == DivLimbs(nd[1] - nd[2], nd[2], NLimbs, <<>>)
        r  == q[1]
        up == 2 * r > nd[2] \/ (2 * r = nd[2] /\ q[2][NLimbs] % 2 = 1)
        s  == AddUlp(q[2], NLimbs, 1)
    IN IF ~up THEN [e |-> nd[3], hi |-> 1, lo |-> q[2]]
       ELSE IF s[1] = 1 THEN [e |-> nd[3] + 1, hi |-> 1, lo |-> s[2]]
       ELSE [e |-> nd[3], hi |-> 1, lo |-> s[2]]

RECURSIVE MulLimbs(_, _, _, _)
MulLimbs(a, lo, i, carry) ==
    IF i = 0 THEN <<carry, lo>>
    ELSE LET t == a * lo[i] + carry
         IN MulLimbs(a, [lo EXCEPT ![i] = t % LimbBase], i - 1, t \div LimbBase)

\* The exact product a * x cut to the 53 leading bits without rounding.
FMulIntChopped(a, x) ==
    LET p    == MulLimbs(a, x.lo, NLimbs, 0)
        t0   == a * x.hi + p[1]
        unit == Pow2(BitLen(t0) - 1)
    IN [e |-> x.e, hi |-> t0,
        lo |-> [p[2] EXCEPT ![NLimbs] = (p[2][NLimbs] \div unit) * unit]]

\* b['amount'] * odds: the int a (below 2^13) times the double x, correctly
\* rounded; the result keeps x's exponent and an integer part hi >= 1.
FMulInt(a, x) ==
    LET p    == MulLimbs(a, x.lo, NLimbs, 0)
        t0   == a * x.hi + p[1]
        lo   == p[2]
        s    == BitLen(t0) - 1
        unit == Pow2(s)
        rem  == lo[NLimbs] % unit
        kept == lo[NLimbs] \div unit
        lsb  == IF s < LimbBits THEN kept % 2 ELSE lo[NLimbs - 1] % 2
        up   == s > 0 /\ (2 * rem > unit \/ (2 * rem = unit /\ lsb = 1))
        cut  == [lo EXCEPT ![NLimbs] = kept * unit]
        r    == AddUlp(cut, NLimbs, IF up THEN unit ELSE 0)
    IN [e |-> x.e, hi |-> t0 + r[1], lo |-> r[2]]

\* int(x) of a double x >= 0 with exponent at most LimbBits.
FTrunc(x) ==
    IF x.e <= 0 THEN x.hi \div Pow2(0 - x.e)
    ELSE x.hi * Pow2(x.e) + (x.lo[1] \div Pow2(LimbBits - x.e))

RECURSIVE LimbsLess(_, _, _)
LimbsLess(a, b, i) ==
    IF i > NLimbs THEN FALSE
    ELSE IF a[i] # b[i] THEN a[i] < b[i]
    ELSE LimbsLess(a, b, i + 1)

\* x < y for normalised doubles (hi = 1).
FLess(x, y) == x.e < y.e \/ (x.e = y.e /\ LimbsLess(x.lo, y.lo, 1))

FOne     == [e |-> 0, hi |-> 1, lo |-> [i \in 1..NLimbs |-> 0]]
FQuarter == [e |-> -2, hi |-> 1, lo |-> [i \in 1..NLimbs |-> 0]]
\* Python's min(x, y) and max(x, y): the first argument unless the second beats it.
FMin(x, y) == IF FLess(y, x) THEN y ELSE x
FMax(x, y) == IF FLess(x, y) THEN y ELSE x

(***************************************************************************)
(* The payout calculation of cmd_resolve.                                  *)
(***************************************************************************)
\* sum(b['amount'] for b in bets if (b['choice'] == winning_choice) == winners)
RECURSIVE SumAmounts(_, _, _, _)
SumAmounts(bs, i, winning_choice, winners) ==
    IF i > Len(bs) THEN 0
    ELSE (IF (bs[i].choice = winning_choice) = winners THEN bs[i].amount ELSE 0)
         + SumAmounts(bs, i + 1, winning_choice, winners)

TotalWinning(bs, winning_choice) == SumAmounts(bs, 1, winning_choice, TRUE)

TotalLosing(bs, winning_choice) == SumAmounts(bs, 1, winning_choice, FALSE)

OddsUnclamped(total_winning, total_losing) ==
    IF total_winning = 0 \/ total_losing = 0 THEN FOne
    ELSE FMin(FOne, FDiv(total_losing, total_winning))

Odds(total_winning, total_losing) ==
    IF total_winning = 0 \/ total_losing = 0 THEN FOne
    ELSE FMax(FQuarter, FMin(FOne, FDiv(total_losing, total_winning)))

PayoutChopped(amount, total_winning, total_losing) ==
    amount + FTrunc(FMulIntChopped(amount, Odds(total_winning, total_losing)))

Payout(amount, total_winning, total_losing) ==
    amount + FTrunc(FMulInt(amount, Odds(total_winning, total_losing)))

\* The entry of results for bet b.
ResultOf(b, winning_choice, total_winning, total_losing) ==
    IF b.choice = winning_choice
    THEN [outcome |-> "won", stake |-> b.amount,
          payout |-> Payout(b.amount, total_winning, total_losing)]
    ELSE [outcome |-> "lost", stake |-> b.amount, payout |-> 0]

(***************************************************************************)
(* The ledger: the tables of init_db and the statements run on them.       *)
(***************************************************************************)
Slots == 1..MaxTasks

Snapshot == [users |-> users, bets |-> bets, highest_bet |-> highest_bet,
             pending_stakes |-> pending_stakes]

NoPre == [users |-> <<>>, bets |-> EmptyBag, highest_bet |-> <<>>,
          pending_stakes |-> <<>>]

Idle == [kind |-> "idle"]
NoLast == [kind |-> "none"]
NoCalc == [pc |-> "off"]

\* safe_bal of set_user_balance without the floor of 1.
SafeBalUnfloored(new_balance) == new_balance

\* safe_bal = max(1, int(math.floor(new_balance))), new_balance an int.
SafeBal(new_balance) == IF new_balance > 1 THEN new_balance ELSE 1

\* set_user_balance with ON CONFLICT(user_id) DO UPDATE SET
\* balance = balance + excluded.balance.
SetUserBalanceAdds(tbl, user_id, new_balance) ==
    [x \in DOMAIN tbl \cup {user_id} |->
        IF x # user_id THEN tbl[x]
        ELSE IF x \in DOMAIN tbl THEN tbl[x] + SafeBal(new_balance)
        ELSE SafeBal(new_balance)]

\* The users table after set_user_balance(user_id, new_balance): an upsert.
SetUserBalance(tbl, user_id, new_balance) ==
    [x \in DOMAIN tbl \cup {user_id} |->
        IF x = user_id THEN SafeBal(new_balance) ELSE tbl[x]]

\* The rows of the bets table with the key (message_id, user_id).
RowsOfKey(tbl, message_id, user_id) ==
    {r \in BagToSet(tbl) : r.message_id = message_id /\ r.user_id = user_id}

RECURSIVE SetToSeq(_)
SetToSeq(S) ==
    IF S = {} THEN <<>>
    ELSE LET x == CHOOSE y \in S : TRUE IN <<x>> \o SetToSeq(S \ {x})

\* get_bets_for_message: the rows of one message, in the order of the primary
\* key index (message_id, user_id) that serves the WHERE clause.
RECURSIVE BetsFrom(_, _, _)
BetsFrom(tbl, message_id, i) ==
    IF i > Len(UserOrder) THEN <<>>
    ELSE SetToSeq(RowsOfKey(tbl, message_id, UserOrder[i]))
         \o BetsFrom(tbl, message_id, i + 1)

GetBetsForMessage(tbl, message_id) == BetsFrom(tbl, message_id, 1)

NewRow(message_id, user_id, choice, amount) ==
    [message_id |-> message_id, user_id |-> user_id, choice |-> choice,
     amount |-> amount, resolved |-> 0]

\* INSERT INTO bets on a table without the primary key.
CanInsertNoKey(tbl, message_id, user_id) == TRUE

\* PRIMARY KEY(message_id, user_id): the INSERT of place_bet goes through
\* only when no row has the key.
CanInsert(tbl, message_id, user_id) == RowsOfKey(tbl, message_id, user_id) = {}

InsertBet(tbl, row) == tbl (+) SetToBag({row})

\* The comparison of place_bet with >= in place of >.
UpdateHighestOnTie(hb, message_id, user_id, choice, amount) ==
    IF hb = <<>> \/ amount >= hb[1].amount
    THEN <<[user_id |-> user_id, message_id |-> message_id,
            choice |-> choice, amount |-> amount]>>
    ELSE hb

\* The highest_bet row after place_bet's comparison and upsert.
UpdateHighest(hb, message_id, user_id, choice, amount) ==
    IF hb = <<>> \/ amount > hb[1].amount
    THEN <<[user_id |-> user_id, message_id |-> message_id,
            choice |-> choice, amount |-> amount]>>
    ELSE hb

RECURSIVE SumCopies(_, _)
SumCopies(tbl, S) ==
    IF S = {} THEN 0
    ELSE LET x == CHOOSE y \in S : TRUE IN tbl[x] + SumCopies(tbl, S \ {x})

\* mark_bets_resolved: UPDATE bets SET resolved=1 WHERE message_id = ?
MarkBetsResolved(tbl, message_id) ==
    LET img(r) == IF r.message_id = message_id THEN [r EXCEPT !.resolved = 1] ELSE r
        T == {img(r) : r \in BagToSet(tbl)}
    IN [x \in T |-> SumCopies(tbl, {r \in BagToSet(tbl) : img(r) = x})]

\* /resolve without the DELETE.
DeleteNoBets(tbl, message_id) == tbl

\* DELETE FROM bets, every row.
DeleteAllBets(tbl, message_id) == EmptyBag

\* DELETE FROM bets WHERE message_id = ?
DeleteBets(tbl, message_id) ==
    [r \in {x \in BagToSet(tbl) : x.message_id # message_id} |-> tbl[r]]

(***************************************************************************)
(* Tasks.  A handler is a task that runs from one await to the next in one *)
(* step.  solo says that no other handler has taken a step since the task  *)
(* began, and pre is then the state it began in.  mode is "seq" when a     *)
(* handler begins only after the one before has ended, and "race" when     *)
(* handlers interleave.  event_state records the history of a message:     *)
(* "open" until a /resolve of it has completed, then "resolved", and       *)
(* "reopened" once a bet has been stored on it after that.                 *)
(***************************************************************************)
HasFreeSlot == \E s \in Slots : tasks[s].kind = "idle"

FreeSlot == CHOOSE s \in Slots :
                tasks[s].kind = "idle" /\ \A r \in Slots : r < s => tasks[r].kind # "idle"

Disturbed(s) ==
    IF tasks[s].kind = "idle" THEN tasks[s]
    ELSE [tasks[s] EXCEPT !.solo = FALSE, !.pre = NoPre]

\* Task slot t becomes new; every other running task has been interleaved with.
TaskStep(t, new) == tasks' = [s \in Slots |-> IF s = t THEN new ELSE Disturbed(s)]

\* A handler that returns before it first suspends.
NoTask == tasks' = [s \in Slots |-> Disturbed(s)]

UsersOf(md) == IF md = "race" THEN RaceUsers ELSE Users
EventsOf(md) == IF md = "race" THEN RaceEvents ELSE Events

Begin == /\ nops < (IF mode = "race" THEN MaxRaceOps ELSE MaxOps)
         /\ mode = "seq" => \A s \in Slots : tasks[s].kind = "idle"
         /\ nops' = nops + 1

Finished(task, outcome) == [kind |-> task.kind, outcome |-> outcome, task |-> task]

NewTask(kind, pc, user, msg_id, choice, amount) ==
    [kind |-> kind, pc |-> pc, user |-> user, msg_id |-> msg_id, choice |-> choice,
     amount |-> amount, bal |-> 0, rows |-> <<>>, i |-> 0,
     event_was |-> IF msg_id \in Events THEN event_state[msg_id] ELSE "none",
     solo |-> TRUE, pre |-> Snapshot]

InitLedger ==
    /\ users = <<>>
    /\ bets = EmptyBag
    /\ highest_bet = <<>>
    /\ pending_stakes = <<>>
    /\ tasks = [s \in Slots |-> Idle]
    /\ last = NoLast
    /\ event_state = [m \in Events |-> "open"]
    /\ nops = 0

Init == InitLedger /\ mode = "seq" /\ calc = NoCalc

InitRace == InitLedger /\ mode = "race" /\ calc = NoCalc

PopPending(p, user) == [x \in DOMAIN p \ {user} |-> p[x]]

PutPending(p, user, msg_id, choice) ==
    [x \in DOMAIN p \cup {user} |-> IF x = user THEN <<msg_id, choice>> ELSE p[x]]

(***************************************************************************)
(* get_user_balance, awaited by on_message, /balance, /addcoins, /resolve. *)
(***************************************************************************)
\* Where the caller goes once get_user_balance has returned bal: on_message
\* checks the stake, /balance replies, /addcoins and /resolve write.
AfterBalance(task, bal) ==
    IF task.kind = "on_message"
    THEN IF task.amount > bal THEN [task EXCEPT !.bal = bal, !.pc = "reject_balance"]
         ELSE IF task.amount < 1 THEN [task EXCEPT !.bal = bal, !.pc = "reject_minimum"]
         ELSE [task EXCEPT !.bal = bal, !.pc = "deduct"]
    ELSE IF task.kind = "balance" THEN [task EXCEPT !.bal = bal, !.pc = "done"]
    ELSE IF task.kind = "addcoins" THEN [task EXCEPT !.bal = bal, !.pc = "write"]
    ELSE [task EXCEPT !.bal = bal, !.pc = "credit"]

\* The caller has got its balance: /balance ends here, the others go on.
Returned(t, task) ==
    IF task.pc = "done"
    THEN TaskStep(t, Idle) /\ last' = Finished(task, "reported")
    ELSE TaskStep(t, task) /\ last' = NoLast

\* SELECT balance FROM users WHERE user_id = ?
GetUserBalanceSelect(t) ==
    /\ tasks[t].kind # "idle" /\ tasks[t].pc = "get_balance"
    /\ IF tasks[t].user \in DOMAIN users
       THEN Returned(t, AfterBalance(tasks[t], users[tasks[t].user]))
       ELSE TaskStep(t, [tasks[t] EXCEPT !.pc = "create_balance"]) /\ last' = NoLast
    /\ UNCHANGED <<users, bets, highest_bet, pending_stakes, event_state, nops,
                   mode, calc>>

\* row is None: set_user_balance(user_id, DEFAULT_START_BALANCE), and the
\* default is what get_user_balance returns.
GetUserBalanceCreate(t) ==
    /\ tasks[t].kind # "idle" /\ tasks[t].pc = "create_balance"
    /\ users' = SetUserBalance(users, tasks[t].user, DEFAULT_START_BALANCE)
    /\ Returned(t, AfterBalance(tasks[t], DEFAULT_START_BALANCE))
    /\ UNCHANGED <<bets, highest_bet, pending_stakes, event_state, nops, mode, calc>>

(***************************************************************************)
(* on_message: a DM with the stake.                                        *)
(***************************************************************************)
\* The DM of a user who has no pending stake is dropped, whatever it says.
OnMessageIgnored(user) ==
    /\ Begin
    /\ user \notin DOMAIN pending_stakes
    /\ NoTask
    /\ last' = Finished(NewTask("on_message", "done", user, "", 0, 0), "ignored")
    /\ UNCHANGED <<users, bets, highest_bet, pending_stakes, event_state, mode, calc>>

\* int(message.content.strip()) raises ValueError: the pending stake stays.
OnMessageInvalid(user, reply) ==
    /\ Begin
    /\ user \in DOMAIN pending_stakes
    /\ ~reply.numeric
    /\ NoTask
    /\ last' = Finished(NewTask("on_message", "done", user, pending_stakes[user][1],
                                pending_stakes[user][2], 0), "invalid_number")
    /\ UNCHANGED <<users, bets, highest_bet, pending_stakes, event_state, mode, calc>>

\* pending_stakes.pop(user_id), then the handler awaits get_user_balance.
OnMessagePop(user, reply) ==
    /\ Begin
    /\ user \in DOMAIN pending_stakes
    /\ reply.numeric
    /\ HasFreeSlot
    /\ TaskStep(FreeSlot, NewTask("on_message", "get_balance", user,
                                  pending_stakes[user][1], pending_stakes[user][2],
                                  reply.value))
    /\ pending_stakes' = PopPending(pending_stakes, user)
    /\ last' = NoLast
    /\ UNCHANGED <<users, bets, highest_bet, event_state, mode, calc>>

\* The rejection without pending_stakes[user_id] = (msg_id, choice).
OnMessagePutBackDropped(t) ==
    /\ tasks[t].kind = "on_message"
    /\ tasks[t].pc \in {"reject_balance", "reject_minimum"}
    /\ TaskStep(t, Idle)
    /\ last' = Finished(tasks[t], IF tasks[t].pc = "reject_balance"
                                  THEN "insufficient_balance" ELSE "below_minimum")
    /\ UNCHANGED <<users, bets, highest_bet, pending_stakes, event_state, nops, mode,
                   calc>>

\* After the rejection is sent the stake is put back so the user can retry.
OnMessagePutBack(t) ==
    /\ tasks[t].kind = "on_message"
    /\ tasks[t].pc \in {"reject_balance", "reject_minimum"}
    /\ pending_stakes' = PutPending(pending_stakes, tasks[t].user,
                                    tasks[t].msg_id, tasks[t].choice)
    /\ TaskStep(t, Idle)
    /\ last' = Finished(tasks[t], IF tasks[t].pc = "reject_balance"
                                  THEN "insufficient_balance" ELSE "below_minimum")
    /\ UNCHANGED <<users, bets, highest_bet, event_state, nops, mode, calc>>

\* await set_user_balance(str(user_id), bal - amount)
OnMessageDeduct(t) ==
    /\ tasks[t].kind = "on_message" /\ tasks[t].pc = "deduct"
    /\ users' = SetUserBalance(users, tasks[t].user, tasks[t].bal - tasks[t].amount)
    /\ TaskStep(t, [tasks[t] EXCEPT !.pc = "place_select"])
    /\ last' = NoLast
    /\ UNCHANGED <<bets, highest_bet, pending_stakes, event_state, nops, mode, calc>>

\* place_bet: the SELECT; a row found raises ValueError, which on_message reports.
OnMessagePlaceSelect(t) ==
    /\ tasks[t].kind = "on_message" /\ tasks[t].pc = "place_select"
    /\ IF RowsOfKey(bets, tasks[t].msg_id, tasks[t].user) # {}
       THEN /\ TaskStep(t, Idle)
            /\ last' = Finished(tasks[t], "duplicate")
       ELSE /\ TaskStep(t, [tasks[t] EXCEPT !.pc = "place_insert"])
            /\ last' = NoLast
    /\ UNCHANGED <<users, bets, highest_bet, pending_stakes, event_state, nops,
                   mode, calc>>

\* place_bet: the INSERT, the highest_bet upsert and the commit, one transaction.
\* An INSERT the primary key refuses raises sqlite3.IntegrityError, which
\* nothing catches: the handler ends there.
OnMessagePlaceInsert(t) ==
    /\ tasks[t].kind = "on_message" /\ tasks[t].pc = "place_insert"
    /\ IF CanInsert(bets, tasks[t].msg_id, tasks[t].user)
       THEN /\ bets' = InsertBet(bets, NewRow(tasks[t].msg_id, tasks[t].user,
                                              tasks[t].choice, tasks[t].amount))
            /\ highest_bet' = UpdateHighest(highest_bet, tasks[t].msg_id, tasks[t].user,
                                            tasks[t].choice, tasks[t].amount)
            /\ event_state' = [event_state EXCEPT ![tasks[t].msg_id] =
                                   IF @ = "open" THEN "open" ELSE "reopened"]
            /\ last' = Finished(tasks[t], "placed")
       ELSE /\ UNCHANGED <<bets, highest_bet, event_state>>
            /\ last' = Finished(tasks[t], "integrity_error")
    /\ TaskStep(t, Idle)
    /\ UNCHANGED <<users, pending_stakes, nops, mode, calc>>

(***************************************************************************)
(* on_raw_reaction_add and on_raw_reaction_remove.                         *)
(***************************************************************************)
\* An emoji that is neither side symbol: the handler returns before any read.
ReactionAddOtherEmoji(user, msg_id, emoji) ==
    /\ Begin
    /\ emoji \notin Choices
    /\ NoTask
    /\ last' = Finished(NewTask("reaction_add", "done", user, msg_id, 0, 0), "ignored")
    /\ UNCHANGED <<users, bets, highest_bet, pending_stakes, event_state, mode, calc>>

\* Step 1: get_bets_for_message and the search for an unresolved bet of the user.
ReactionAddGetBets(user, msg_id, emoji) ==
    /\ Begin
    /\ emoji \in Choices
    /\ LET confirmed == {r \in RowsOfKey(bets, msg_id, user) : r.resolved = 0}
       IN IF confirmed # {}
          THEN /\ NoTask
               /\ last' = Finished(NewTask("reaction_add", "done", user, msg_id, emoji, 0),
                                   IF \E r \in confirmed : r.choice # emoji
                                   THEN "cannot_switch" ELSE "already_bet")
          ELSE /\ HasFreeSlot
               /\ TaskStep(FreeSlot, NewTask("reaction_add", "check_pending",
                                             user, msg_id, emoji, 0))
               /\ last' = NoLast
    /\ UNCHANGED <<users, bets, highest_bet, pending_stakes, event_state, mode, calc>>

\* Steps 2 and 3 with a pending stake for another message kept in Step 3.
ReactionAddKeepsFirstPending(t) ==
    /\ tasks[t].kind = "reaction_add" /\ tasks[t].pc = "check_pending"
    /\ IF /\ tasks[t].user \in DOMAIN pending_stakes
          /\ pending_stakes[tasks[t].user][1] = tasks[t].msg_id
       THEN /\ UNCHANGED pending_stakes
            /\ last' = Finished(tasks[t],
                                IF pending_stakes[tasks[t].user][2] = tasks[t].choice
                                THEN "same_choice" ELSE "other_choice")
       ELSE /\ pending_stakes' =
                  IF tasks[t].user \in DOMAIN pending_stakes THEN pending_stakes
                  ELSE PutPending(pending_stakes, tasks[t].user,
                                  tasks[t].msg_id, tasks[t].choice)
            /\ last' = Finished(tasks[t], "pending")
    /\ TaskStep(t, Idle)
    /\ UNCHANGED <<users, bets, highest_bet, event_state, nops, mode, calc>>

\* Steps 2 and 3, run without an await once the bets are back.
ReactionAddCheckPending(t) ==
    /\ tasks[t].kind = "reaction_add" /\ tasks[t].pc = "check_pending"
    /\ IF /\ tasks[t].user \in DOMAIN pending_stakes
          /\ pending_stakes[tasks[t].user][1] = tasks[t].msg_id
       THEN /\ UNCHANGED pending_stakes
            /\ last' = Finished(tasks[t],
                                IF pending_stakes[tasks[t].user][2] = tasks[t].choice
                                THEN "same_choice" ELSE "other_choice")
       ELSE /\ pending_stakes' = PutPending(pending_stakes, tasks[t].user,
                                            tasks[t].msg_id, tasks[t].choice)
            /\ last' = Finished(tasks[t], "pending")
    /\ TaskStep(t, Idle)
    /\ UNCHANGED <<users, bets, highest_bet, event_state, nops, mode, calc>>

\* on_raw_reaction_remove as a cancellation of the stored bet: the row of
\* the user is deleted and the stake paid back.
ReactionRemoveRefunds(user, msg_id, emoji) ==
    /\ Begin
    /\ LET mine == {r \in RowsOfKey(bets, msg_id, user) : r.resolved = 0}
       IN /\ bets' = [r \in BagToSet(bets) \ mine |-> bets[r]]
          /\ users' = IF mine = {} THEN users
                      ELSE SetUserBalance(users, user,
                                          users[user] + (CHOOSE r \in mine : TRUE).amount)
          /\ last' = Finished(NewTask("reaction_remove", "done", user, msg_id, emoji, 0),
                              IF mine = {} THEN "nothing" ELSE "cancelled")
    /\ NoTask
    /\ UNCHANGED <<highest_bet, pending_stakes, event_state, mode, calc>>

\* on_raw_reaction_remove without pending_stakes.pop(user.id, None).
ReactionRemoveKeepsPending(user, msg_id, emoji) ==
    /\ Begin
    /\ last' = Finished(NewTask("reaction_remove", "done", user, msg_id, emoji, 0),
                        IF user \in DOMAIN pending_stakes /\ pending_stakes[user][1] = msg_id
                        THEN "cancelled" ELSE "nothing")
    /\ NoTask
    /\ UNCHANGED <<users, bets, highest_bet, pending_stakes, event_state, mode, calc>>

\* The pending stake of the user for this message, if any, is cancelled.
ReactionRemove(user, msg_id, emoji) ==
    /\ Begin
    /\ IF user \in DOMAIN pending_stakes /\ pending_stakes[user][1] = msg_id
       THEN /\ pending_stakes' = PopPending(pending_stakes, user)
            /\ last' = Finished(NewTask("reaction_remove", "done", user, msg_id, emoji, 0),
                                "cancelled")
       ELSE /\ UNCHANGED pending_stakes
            /\ last' = Finished(NewTask("reaction_remove", "done", user, msg_id, emoji, 0),
                                "nothing")
    /\ NoTask
    /\ UNCHANGED <<users, bets, highest_bet, event_state, mode, calc>>

(***************************************************************************)
(* /balance and /addcoins.                                                 *)
(***************************************************************************)
\* bal = await get_user_balance(str(target.id))
CmdBalance(target) ==
    /\ Begin
    /\ HasFreeSlot
    /\ TaskStep(FreeSlot, NewTask("balance", "get_balance", target, "", 0, 0))
    /\ last' = NoLast
    /\ UNCHANGED <<users, bets, highest_bet, pending_stakes, event_state, mode, calc>>

\* The permission check moved after cur = await get_user_balance(...).
CmdAddcoinsDeniedAfterRead(user) ==
    /\ Begin
    /\ NoTask
    /\ users' = IF user \in DOMAIN users THEN users
                ELSE SetUserBalance(users, user, DEFAULT_START_BALANCE)
    /\ last' = Finished(NewTask("addcoins", "done", user, "", 0, 0), "not_authorized")
    /\ UNCHANGED <<bets, highest_bet, pending_stakes, event_state, mode, calc>>

\* Neither the owner nor an administrator: rejected before any read, whatever
\* the amount.
CmdAddcoinsDenied(user) ==
    /\ Begin
    /\ NoTask
    /\ last' = Finished(NewTask("addcoins", "done", user, "", 0, 0), "not_authorized")
    /\ UNCHANGED <<users, bets, highest_bet, pending_stakes, event_state, mode, calc>>

\* cur = await get_user_balance(str(user.id))
CmdAddcoins(user, amount) ==
    /\ Begin
    /\ HasFreeSlot
    /\ TaskStep(FreeSlot, NewTask("addcoins", "get_balance", user, "", 0, amount))
    /\ last' = NoLast
    /\ UNCHANGED <<users, bets, highest_bet, pending_stakes, event_state, mode, calc>>

\* newbal = cur + amount, the number the reply of /addcoins shows as the
\* new balance; the value set_user_balance returns is not used.
AddcoinsNewbal(cur, amount) == cur + amount

\* newbal = cur + amount; set_user_balance(user, newbal); the reply shows newbal.
CmdAddcoinsWrite(t) ==
    /\ tasks[t].kind = "addcoins" /\ tasks[t].pc = "write"
    /\ users' = SetUserBalance(users, tasks[t].user, tasks[t].bal + tasks[t].amount)
    /\ TaskStep(t, Idle)
    /\ last' = Finished(tasks[t], "adjusted")
    /\ UNCHANGED <<bets, highest_bet, pending_stakes, event_state, nops, mode, calc>>

(***************************************************************************)
(* /resolve.                                                               *)
(***************************************************************************)
\* The index of the next winning bet of rows at or after i, or Len(rows) + 1.
RECURSIVE NextWinner(_, _, _)
NextWinner(rows, i, winning_choice) ==
    IF i > Len(rows) THEN i
    ELSE IF rows[i].choice = winning_choice THEN i
    ELSE NextWinner(rows, i + 1, winning_choice)

\* The task once the loop has handled the bets before index i: at the next
\* winner's get_user_balance, or past the loop at mark_bets_resolved.
ResolveAt(task, i) ==
    LET j == NextWinner(task.rows, i, task.choice)
    IN IF j > Len(task.rows)
       THEN [task EXCEPT !.i = j, !.pc = "mark"]
       ELSE [task EXCEPT !.i = j, !.pc = "get_balance", !.user = task.rows[j].user_id]

\* if not bets: with the test left out.
NoBetsNever(rows) == FALSE

\* if not bets:
NoBets(rows) == rows = <<>>

\* winning_choice not in (1, 2), or the permission check fails.
CmdResolveRejected(msg_id, winning_choice, allowed) ==
    /\ Begin
    /\ winning_choice \notin Choices \/ ~allowed
    /\ NoTask
    /\ last' = Finished(NewTask("resolve", "done", "", msg_id, winning_choice, 0),
                        IF winning_choice \notin Choices THEN "invalid_choice"
                        ELSE "not_authorized")
    /\ UNCHANGED <<users, bets, highest_bet, pending_stakes, event_state, mode, calc>>

\* Collect bets: get_bets_for_message, the two rejections, the totals.
CmdResolveGetBets(msg_id, winning_choice) ==
    /\ Begin
    /\ winning_choice \in Choices
    /\ LET rows == GetBetsForMessage(bets, msg_id)
           task == [NewTask("resolve", "get_balance", "", msg_id, winning_choice, 0)
                       EXCEPT !.rows = rows]
       IN IF NoBets(rows)
          THEN /\ NoTask
               /\ last' = Finished(task, "no_bets")
          ELSE IF \E k \in 1..Len(rows) : rows[k].resolved # 0
          THEN /\ NoTask
               /\ last' = Finished(task, "already_resolved")
          ELSE /\ HasFreeSlot
               /\ TaskStep(FreeSlot, ResolveAt(task, 1))
               /\ last' = NoLast
    /\ UNCHANGED <<users, bets, highest_bet, pending_stakes, event_state, mode, calc>>

\* new_bal = cur_bal + payout, without cur_bal.
NewBalNoCur(cur_bal, payout) == payout

\* new_bal = cur_bal + payout
NewBal(cur_bal, payout) == cur_bal + payout

\* await set_user_balance(b['user_id'], new_bal), then on to the next winner.
CmdResolveCredit(t) ==
    /\ tasks[t].kind = "resolve" /\ tasks[t].pc = "credit"
    /\ LET b == tasks[t].rows[tasks[t].i]
           payout == Payout(b.amount, TotalWinning(tasks[t].rows, tasks[t].choice),
                            TotalLosing(tasks[t].rows, tasks[t].choice))
       IN users' = SetUserBalance(users, b.user_id, NewBal(tasks[t].bal, payout))
    /\ TaskStep(t, ResolveAt(tasks[t], tasks[t].i + 1))
    /\ last' = NoLast
    /\ UNCHANGED <<bets, highest_bet, pending_stakes, event_state, nops, mode, calc>>

\* await mark_bets_resolved(str(message.id))
CmdResolveMark(t) ==
    /\ tasks[t].kind = "resolve" /\ tasks[t].pc = "mark"
    /\ bets' = MarkBetsResolved(bets, tasks[t].msg_id)
    /\ TaskStep(t, [tasks[t] EXCEPT !.pc = "delete"])
    /\ last' = NoLast
    /\ UNCHANGED <<users, highest_bet, pending_stakes, event_state, nops, mode, calc>>

\* DELETE FROM bets WHERE message_id = ?; the summary follows.
CmdResolveDelete(t) ==
    /\ tasks[t].kind = "resolve" /\ tasks[t].pc = "delete"
    /\ bets' = DeleteBets(bets, tasks[t].msg_id)
    /\ event_state' = [event_state EXCEPT ![tasks[t].msg_id] = "resolved"]
    /\ TaskStep(t, Idle)
    /\ last' = Finished(tasks[t], "resolved")
    /\ UNCHANGED <<users, highest_bet, pending_stakes, nops, mode, calc>>

(***************************************************************************)
(* The specifications of the bot: Spec runs the handlers one after the     *)
(* other, SpecRace interleaves them.                                       *)
(***************************************************************************)
Next ==
    \/ \E u \in UsersOf(mode) : OnMessageIgnored(u)
    \/ \E u \in UsersOf(mode), r \in Replies : OnMessageInvalid(u, r) \/ OnMessagePop(u, r)
    \/ \E u \in UsersOf(mode), m \in EventsOf(mode), e \in Emojis :
          \/ ReactionAddOtherEmoji(u, m, e)
          \/ ReactionAddGetBets(u, m, e)
          \/ ReactionRemove(u, m, e)
    \/ \E u \in UsersOf(mode) : CmdBalance(u) \/ CmdAddcoinsDenied(u)
    \/ \E u \in UsersOf(mode), a \in AddAmounts : CmdAddcoins(u, a)
    \/ \E m \in EventsOf(mode), w \in WinningChoices, allowed \in BOOLEAN :
          CmdResolveRejected(m, w, allowed)
    \/ \E m \in EventsOf(mode), w \in WinningChoices : CmdResolveGetBets(m, w)
    \/ \E t \in Slots :
          \/ GetUserBalanceSelect(t)
          \/ GetUserBalanceCreate(t)
          \/ OnMessagePutBack(t)
          \/ OnMessageDeduct(t)
          \/ OnMessagePlaceSelect(t)
          \/ OnMessagePlaceInsert(t)
          \/ ReactionAddCheckPending(t)
          \/ CmdAddcoinsWrite(t)
          \/ CmdResolveCredit(t)
          \/ CmdResolveMark(t)
          \/ CmdResolveDelete(t)

Spec == Init /\ [][Next]_vars

SpecRace == InitRace /\ [][Next]_vars

(***************************************************************************)
(* SpecCalc: the payout loop of cmd_resolve on every bet list of at most   *)
(* MaxCalcBets bets with stakes of CalcStakes.                             *)
(***************************************************************************)
CalcRows == [choice : Choices, amount : CalcStakes]

CalcLists == UNION {[1..n -> CalcRows] : n \in 1..MaxCalcBets}

InitCalc ==
    /\ InitLedger
    /\ mode = "calc"
    /\ \E bs \in CalcLists, w \in Choices :
          calc = [pc |-> "loop", bets |-> bs, winning_choice |-> w, results |-> <<>>,
                  total_winning |-> TotalWinning(bs, w),
                  total_losing |-> TotalLosing(bs, w)]

\* for b in bets: one pass of the loop body.
CalcLoop ==
    /\ calc.pc = "loop"
    /\ Len(calc.results) < Len(calc.bets)
    /\ calc' = [calc EXCEPT !.results =
                   Append(@, ResultOf(calc.bets[Len(calc.results) + 1], calc.winning_choice,
                                      calc.total_winning, calc.total_losing))]
    /\ UNCHANGED <<users, bets, highest_bet, pending_stakes, tasks, last, event_state,
                   nops, mode>>

\* The loop is over.
CalcDone ==
    /\ calc.pc = "loop"
    /\ Len(calc.results) = Len(calc.bets)
    /\ calc' = [calc EXCEPT !.pc = "done"]
    /\ UNCHANGED <<users, bets, highest_bet, pending_stakes, tasks, last, event_state,
                   nops, mode>>

NextCalc == CalcLoop \/ CalcDone

SpecCalc == InitCalc /\ [][NextCalc]_vars

(***************************************************************************)
(* SpecFail: the handlers run one after the other, and a statement that a  *)
(* /resolve awaits may raise (sqlite3.OperationalError from a connect, an  *)
(* execute or a commit).  cmd_resolve catches nothing there, so the        *)
(* statement has no effect and the handler ends at that point.             *)
(***************************************************************************)
CmdResolveFails(t) ==
    /\ tasks[t].kind = "resolve"
    /\ tasks[t].pc \in {"get_balance", "create_balance", "credit", "mark", "delete"}
    /\ TaskStep(t, Idle)
    /\ last' = Finished(tasks[t], "failed")
    /\ UNCHANGED <<users, bets, highest_bet, pending_stakes, event_state, nops, mode,
                   calc>>

NextFail == Next \/ \E t \in Slots : CmdResolveFails(t)

SpecFail == Init /\ [][NextFail]_vars

(***************************************************************************)
(* SpecFirst: nothing but balance queries, which interleave at the awaits  *)
(* of get_user_balance.                                                    *)
(***************************************************************************)
InitFirst == InitLedger /\ mode = "first" /\ calc = NoCalc

NextFirst ==
    \/ \E u \in UsersOf(mode) : CmdBalance(u)
    \/ \E t \in Slots : GetUserBalanceSelect(t) \/ GetUserBalanceCreate(t)

SpecFirst == InitFirst /\ [][NextFirst]_vars

(***************************************************************************)
(* Properties.                                                             *)
(***************************************************************************)
\* The copies of the key (message_id, user_id) in the bets table.
KeyCopies(tbl, message_id, user_id) == SumCopies(tbl, RowsOfKey(tbl, message_id, user_id))

\* The handler that has just ended ran from begin to end with no step of
\* another handler in between.
LastSolo(kind, outcome) ==
    last.kind = kind /\ last.outcome = outcome /\ last.task.solo

\* The three tables are as they were when the handler that has just ended began.
LedgerAsBefore ==
    /\ users = last.task.pre.users
    /\ bets = last.task.pre.bets
    /\ highest_bet = last.task.pre.highest_bet

\* C1: every stored balance is an integer of at least 1, and an /addcoins that
\* asks for the balance b stores max(1, b).
C1_BalanceAtLeastOne ==
    /\ \A u \in DOMAIN users : users[u] \in Nat /\ users[u] >= 1
    /\ LastSolo("addcoins", "adjusted") =>
          LET b == last.task.bal + last.task.amount
          IN users[last.task.user] = IF b >= 1 THEN b ELSE 1

\* An /addcoins has asked for a balance below 1 and 1 is stored.
C1_Witness ==
    /\ LastSolo("addcoins", "adjusted")
    /\ last.task.bal + last.task.amount < 1
    /\ users[last.task.user] = 1

\* C2: for every (message, user) pair the bets table holds at most one row,
\* however the handlers interleave.
C2_OneBetPerPair ==
    \A m \in Events, u \in Users : KeyCopies(bets, m, u) <= 1

\* Two stake handlers of one user raced for one message: both passed the SELECT
\* of place_bet, one stored its row and the INSERT of the other was refused.
C2_Witness ==
    /\ last.kind = "on_message" /\ last.outcome = "integrity_error"
    /\ KeyCopies(bets, last.task.msg_id, last.task.user) = 1

\* C3: a stake handler that place_bet stops with the duplicate-bet error leaves
\* the balances, the bet rows and the highest-bet record as they were.
C3_DuplicateLeavesLedger ==
    LastSolo("on_message", "duplicate") => LedgerAsBefore

\* The bonus of the stake a with the odds taken as the exact ratio L / W
\* clamped to [1/4, 1].
ExactBonus(a, W, L) ==
    IF W = 0 \/ L = 0 THEN a
    ELSE IF L >= W THEN a
    ELSE IF 4 * L <= W THEN a \div 4
    ELSE (a * L) \div W

\* C4: each winner with stake a is paid a + floor(a * odds) with odds the exact
\* clamped ratio, and each loser 0.
C4_ExactPayout ==
    calc.pc = "done" =>
        \A i \in 1..Len(calc.bets) :
            calc.results[i].payout =
                IF calc.bets[i].choice = calc.winning_choice
                THEN calc.bets[i].amount + ExactBonus(calc.bets[i].amount,
                                                      calc.total_winning, calc.total_losing)
                ELSE 0

\* The loop has ended with 300 staked on the winning side, 100 on the other,
\* and bet i a winning stake of 30.
Calc300To100(i) ==
    /\ calc.pc = "done"
    /\ calc.total_winning = 300 /\ calc.total_losing = 100
    /\ i \in 1..Len(calc.bets)
    /\ calc.bets[i].choice = calc.winning_choice
    /\ calc.bets[i].amount = 30

\* C5 as stated: with 300 on the winning side and 100 on the other, a winner
\* who staked 30 is paid 39.
C5_Payout39 ==
    \A i \in 1..MaxCalcBets : Calc300To100(i) => calc.results[i].payout = 39

\* C5 amended: with 300 on the winning side and 100 on the other the clamp
\* leaves the ratio as it is and a winner who staked 30 is paid 40.
C5_Payout40 ==
    \A i \in 1..MaxCalcBets :
        Calc300To100(i) =>
            /\ Odds(calc.total_winning, calc.total_losing)
                  = FDiv(calc.total_losing, calc.total_winning)
            /\ calc.results[i].payout = 40

C5_Witness == \E i \in 1..MaxCalcBets : Calc300To100(i)

\* C6: a winner's payout p for the stake a is within a + floor(a/4) .. 2a; it
\* is 2a when nothing is staked against or at least as much as on the winning
\* side, and a + floor(a/4) when the other side holds at most a quarter.
C6_PayoutBounds ==
    calc.pc = "done" =>
        \A i \in 1..Len(calc.bets) :
            calc.bets[i].choice = calc.winning_choice =>
                LET a == calc.bets[i].amount
                    p == calc.results[i].payout
                    W == calc.total_winning
                    L == calc.total_losing
                IN /\ a + (a \div 4) <= p /\ p <= 2 * a
                   /\ (L = 0 \/ L >= W) => p = 2 * a
                   /\ (0 < 4 * L /\ 4 * L <= W) => p = a + (a \div 4)

\* 1000 on the winning side, 50 on the other: the winner who staked 40 gets 50.
C6_Witness ==
    /\ calc.pc = "done"
    /\ calc.total_winning = 1000 /\ calc.total_losing = 50
    /\ \E i \in 1..Len(calc.bets) :
          /\ calc.bets[i].choice = calc.winning_choice
          /\ calc.bets[i].amount = 40
          /\ calc.results[i].payout = 50

\* C7: a /resolve of a message without stored bets ends with the no-bets reply
\* and changes nothing; so does a /resolve of a message whose last /resolve has
\* completed with no bet stored on it since.
C7_ResolveWithoutBets ==
    /\ (/\ last.kind = "resolve"
        /\ last.outcome \notin {"invalid_choice", "not_authorized"}
        /\ last.task.solo
        /\ GetBetsForMessage(last.task.pre.bets, last.task.msg_id) = <<>>)
          => (last.outcome = "no_bets" /\ LedgerAsBefore)
    /\ (/\ last.kind = "resolve"
        /\ last.outcome \notin {"invalid_choice", "not_authorized"}
        /\ last.task.solo
        /\ last.task.event_was = "resolved")
          => (last.outcome \in {"no_bets", "already_resolved"} /\ LedgerAsBefore)

\* A second /resolve of a message has just failed; the first one paid the
\* winner, whose balance is above the starting balance, once.
C7_Witness ==
    /\ LastSolo("resolve", "no_bets")
    /\ last.task.event_was = "resolved"
    /\ \E u \in DOMAIN users : users[u] > DEFAULT_START_BALANCE
    /\ LedgerAsBefore

\* C8: once a /resolve of a message has completed, no bet is stored on that
\* message again and no later /resolve of it pays anything.
C8_ResolvedIsTerminal ==
    /\ \A m \in Events : event_state[m] # "reopened"
    /\ LastSolo("resolve", "resolved") => last.task.event_was = "open"

\* C9: a stake a with 1 <= a <= b of a user with the stored balance b, once the
\* bet is stored, leaves the balance b - a.
C9_StakeDeducted ==
    (/\ LastSolo("on_message", "placed")
     /\ last.task.user \in DOMAIN last.task.pre.users
     /\ 1 <= last.task.amount
     /\ last.task.amount <= last.task.pre.users[last.task.user])
        => users[last.task.user]
              = last.task.pre.users[last.task.user] - last.task.amount

\* The bet of user u among the rows of one message, as a set of at most one.
BetOf(rows, u) == {rows[k] : k \in {j \in 1..Len(rows) : rows[j].user_id = u}}

\* C10: a /resolve that ran alone to its end has credited each winner with the
\* payout, left every other balance, the rows of the other messages and the
\* highest-bet record alone, and deleted every row of its message.
C10_ResolveEffects ==
    LastSolo("resolve", "resolved") =>
        LET pre  == last.task.pre
            rows == GetBetsForMessage(pre.bets, last.task.msg_id)
            W    == TotalWinning(rows, last.task.choice)
            L    == TotalLosing(rows, last.task.choice)
        IN /\ DOMAIN users = DOMAIN pre.users
           /\ \A u \in DOMAIN users :
                 users[u] = pre.users[u] +
                     (IF \E b \in BetOf(rows, u) : b.choice = last.task.choice
                      THEN LET b == CHOOSE r \in BetOf(rows, u) : TRUE
                           IN Payout(b.amount, W, L)
                      ELSE 0)
           /\ \A r \in BagToSet(pre.bets) :
                 r.message_id # last.task.msg_id => CopiesIn(r, bets) = CopiesIn(r, pre.bets)
           /\ \A r \in BagToSet(bets) :
                 r.message_id # last.task.msg_id /\ r \in BagToSet(pre.bets)
           /\ highest_bet = pre.highest_bet
           /\ pending_stakes = pre.pending_stakes

\* Balance 100, 40 staked on the winning side with 60 staked against: the
\* /resolve has taken the winner from 60 to 140 and left the loser at 40.
C10_Witness ==
    /\ LastSolo("resolve", "resolved")
    /\ LET pre  == last.task.pre
           rows == GetBetsForMessage(pre.bets, last.task.msg_id)
       IN /\ TotalWinning(rows, last.task.choice) = 40
          /\ TotalLosing(rows, last.task.choice) = 60
          /\ \E u \in DOMAIN users, v \in DOMAIN users :
                /\ pre.users[u] = 60 /\ users[u] = 140
                /\ pre.users[v] = 40 /\ users[v] = 40
    /\ bets = EmptyBag

\* The bet rows a step has stored: unresolved rows of bets' that bets lacks.
NewlyStored ==
    {r \in BagToSet(bets') : r.resolved = 0 /\ CopiesIn(r, bets') > CopiesIn(r, bets)}

HighestAmount(hb) == IF hb = <<>> THEN 0 ELSE hb[1].amount

\* C11: a step changes the highest-bet record only by storing a bet whose
\* amount strictly exceeds the recorded one, and the record then names that
\* bet; a stored bet that ties or is lower leaves the record as it is; the
\* recorded amount never decreases and, bets deleted or not, is the largest
\* amount of the bets stored so far.
C11_HighestBetStep ==
    /\ highest_bet' # highest_bet =>
          \E r \in NewlyStored :
             /\ r.amount > HighestAmount(highest_bet)
             /\ highest_bet' = <<[user_id |-> r.user_id, message_id |-> r.message_id,
                                  choice |-> r.choice, amount |-> r.amount]>>
    /\ \A r \in NewlyStored :
          /\ r.amount <= HighestAmount(highest_bet) => highest_bet' = highest_bet
          /\ HighestAmount(highest_bet') =
                IF r.amount > HighestAmount(highest_bet) THEN r.amount
                ELSE HighestAmount(highest_bet)
    /\ HighestAmount(highest_bet') >= HighestAmount(highest_bet)
    /\ \A r \in BagToSet(bets') : r.amount <= HighestAmount(highest_bet')

C11_HighestBetMonotonic == [][C11_HighestBetStep]_vars

\* Two users have staked the same amount on one message, the record names the
\* first of them, and a /resolve has deleted both bets since.
C11_Witness ==
    /\ LastSolo("resolve", "resolved")
    /\ bets = EmptyBag
    /\ highest_bet # <<>>
    /\ \E r1, r2 \in BagToSet(last.task.pre.bets) :
          /\ r1.user_id # r2.user_id
          /\ r1.amount = highest_bet[1].amount /\ r2.amount = highest_bet[1].amount
          /\ r1.user_id = highest_bet[1].user_id
          /\ r1.message_id = highest_bet[1].message_id

\* C12: an /addcoins or a /resolve that the permission check rejects leaves
\* the accounts (none created, none modified), the bet rows, the highest-bet
\* record and the pending stakes as they were when it was invoked.
C12_UnauthorizedNoEffect ==
    (last.kind \in {"addcoins", "resolve"} /\ last.outcome = "not_authorized") =>
        /\ LedgerAsBefore
        /\ DOMAIN users = DOMAIN last.task.pre.users
        /\ pending_stakes = last.task.pre.pending_stakes

\* A /resolve naming the winning side of a message with a stored bet has been
\* rejected for want of permission: the bet is still stored, unresolved.
C12_Witness ==
    /\ last.kind = "resolve" /\ last.outcome = "not_authorized"
    /\ \E r \in BagToSet(bets) :
          /\ r.message_id = last.task.msg_id
          /\ r.choice = last.task.choice
          /\ r.resolved = 0
    /\ \E u \in Users : u \notin DOMAIN users

\* C13: a reaction-remove of user U on message E, handled while U has a
\* pending stake for E, removes the entry and touches no table, so that no DM
\* of U can then get past the pending test of on_message; and a DM of a user
\* without a pending entry is dropped: no bet stored, no balance changed.
C13_RemoveCancelsPending ==
    /\ (/\ last.kind = "reaction_remove"
        /\ last.task.user \in DOMAIN last.task.pre.pending_stakes
        /\ last.task.pre.pending_stakes[last.task.user][1] = last.task.msg_id)
          => /\ last.outcome = "cancelled"
             /\ last.task.user \notin DOMAIN pending_stakes
             /\ LedgerAsBefore
             /\ \A r \in Replies : /\ ~ENABLED OnMessagePop(last.task.user, r)
                                   /\ ~ENABLED OnMessageInvalid(last.task.user, r)
    /\ (/\ last.kind = "on_message"
        /\ last.task.solo
        /\ last.task.user \notin DOMAIN last.task.pre.pending_stakes)
          => /\ last.outcome = "ignored"
             /\ LedgerAsBefore
             /\ pending_stakes = last.task.pre.pending_stakes

\* A user without an account had a pending stake, has removed the reaction,
\* and the DM handler that would drop the next reply can run.
C13_Witness ==
    /\ last.kind = "reaction_remove" /\ last.outcome = "cancelled"
    /\ last.task.user \in DOMAIN last.task.pre.pending_stakes
    /\ last.task.user \notin DOMAIN pending_stakes
    /\ ENABLED OnMessageIgnored(last.task.user)

\* The step is one of task t at the program point pc.
StepAt(t, pc) ==
    /\ tasks[t].kind # "idle" /\ tasks[t].pc = pc
    /\ IF tasks'[t].kind = "idle" THEN TRUE
       ELSE tasks'[t].pc # pc \/ tasks'[t].i # tasks[t].i

\* C14: a stored, unresolved bet row stays as it is, side and amount, in every
\* step but the mark and the delete of a /resolve of its message; and no step
\* but the credit of a /resolve and the write of an /addcoins raises a stored
\* balance, so that no reaction, DM or balance query pays a stake back.
C14_StoredBetStep ==
    /\ \A r \in BagToSet(bets) :
          (r.resolved = 0 /\ CopiesIn(r, bets') < CopiesIn(r, bets)) =>
              \E t \in Slots : /\ tasks[t].kind = "resolve"
                               /\ tasks[t].msg_id = r.message_id
                               /\ StepAt(t, "mark") \/ StepAt(t, "delete")
    /\ \A u \in DOMAIN users :
          users'[u] > users[u] =>
              \E t \in Slots :
                 \/ tasks[t].kind = "resolve" /\ StepAt(t, "credit")
                 \/ tasks[t].kind = "addcoins" /\ StepAt(t, "write")

C14_StoredBetKept == [][C14_StoredBetStep]_vars

\* A user with a stored bet of 40 has removed the reaction on its message: the
\* row is still there and the balance is still 60.
C14_Witness ==
    /\ last.kind = "reaction_remove"
    /\ last.task.user \in DOMAIN users
    /\ users[last.task.user] = 60
    /\ \E r \in BagToSet(bets) :
          /\ r.message_id = last.task.msg_id /\ r.user_id = last.task.user
          /\ r.amount = 40 /\ r.resolved = 0

\* C15: when get_user_balance calls interleave and nothing else runs, every
\* account holds the starting balance, in the one row the key user_id allows,
\* and every call that has returned has returned the starting balance for an
\* account that exists.
C15_ConcurrentFirstAccess ==
    /\ \A u \in DOMAIN users : users[u] = DEFAULT_START_BALANCE
    /\ last.kind = "balance" =>
          /\ last.outcome = "reported"
          /\ last.task.bal = DEFAULT_START_BALANCE
          /\ last.task.user \in DOMAIN users

\* Two calls for one unknown user have both found no row; the first has
\* created the account and returned 100, the second is about to write.
C15_Witness ==
    /\ last.kind = "balance" /\ ~last.task.solo
    /\ last.task.bal = DEFAULT_START_BALANCE
    /\ users[last.task.user] = DEFAULT_START_BALANCE
    /\ \E t \in Slots : /\ tasks[t].kind = "balance"
                         /\ tasks[t].pc = "create_balance"
                         /\ tasks[t].user = last.task.user

\* The balance get_user_balance finds for the user of the handler that has
\* just ended: the stored one, or the starting balance of a new account.
BalanceBefore ==
    IF last.task.user \in DOMAIN last.task.pre.users
    THEN last.task.pre.users[last.task.user]
    ELSE DEFAULT_START_BALANCE

\* C16: the DM of a user with a pending stake that is not a number, is below
\* 1 or exceeds the balance ends with the matching rejection; no bet row is
\* stored, no existing balance and no highest-bet record changes, and the
\* pending stakes, the user's entry among them, are as they were.
C16_ValidationErrorRetry ==
    (/\ last.kind = "on_message"
     /\ last.task.solo
     /\ last.task.user \in DOMAIN last.task.pre.pending_stakes
     /\ \/ last.outcome = "invalid_number"
        \/ last.task.amount < 1
        \/ last.task.amount > BalanceBefore)
        => /\ last.outcome =
                 IF last.outcome = "invalid_number" THEN "invalid_number"
                 ELSE IF last.task.amount > BalanceBefore THEN "insufficient_balance"
                 ELSE "below_minimum"
           /\ bets = last.task.pre.bets
           /\ highest_bet = last.task.pre.highest_bet
           /\ \A u \in DOMAIN last.task.pre.users : users[u] = last.task.pre.users[u]
           /\ pending_stakes = last.task.pre.pending_stakes
           /\ pending_stakes[last.task.user] = <<last.task.msg_id, last.task.choice>>

\* A user with the balance 40 and a pending stake has replied 60: the reply is
\* rejected and the pending stake is back.
C16_Witness ==
    /\ LastSolo("on_message", "insufficient_balance")
    /\ last.task.amount = 60
    /\ last.task.user \in DOMAIN last.task.pre.users
    /\ last.task.pre.users[last.task.user] = 40
    /\ users[last.task.user] = 40
    /\ last.task.user \in DOMAIN pending_stakes

\* The balance of user u once a /resolve with the bet list rows and the
\* winning side choice has paid every winner once on top of the balances before.
SettledBalance(before, rows, choice, u) ==
    before[u] +
        (IF \E b \in BetOf(rows, u) : b.choice = choice
         THEN Payout((CHOOSE r \in BetOf(rows, u) : TRUE).amount,
                     TotalWinning(rows, choice), TotalLosing(rows, choice))
         ELSE 0)

\* C17: a /resolve that has stopped at a failing statement leaves the ledger
\* either as it was before the settlement (no winner credited, the bets of the
\* message stored and unresolved) or as it is after it (every winner credited
\* once, no bet of the message stored).
C17_AllOrNothing ==
    LastSolo("resolve", "failed") =>
        LET pre  == last.task.pre
            rows == GetBetsForMessage(pre.bets, last.task.msg_id)
        IN \/ users = pre.users /\ bets = pre.bets
           \/ /\ bets = DeleteBets(pre.bets, last.task.msg_id)
              /\ DOMAIN users = DOMAIN pre.users
              /\ \A u \in DOMAIN users :
                    users[u] = SettledBalance(pre.users, rows, last.task.choice, u)

\* The /resolve task has credited user u: a winning bet of u lies before the
\* index its payout loop has reached.
HasCredited(task, u) ==
    /\ task.kind = "resolve"
    /\ \E k \in 1..Len(task.rows) :
          /\ k < task.i
          /\ task.rows[k].user_id = u
          /\ task.rows[k].choice = task.choice

\* C18: of two /resolve invocations of one message that overlap, at most one
\* pays a given winner: once one of them has credited the winner, the credit
\* step of the other adds nothing to that winner's stored balance.
C18_SecondCreditStep ==
    \A s, t \in Slots :
        (/\ s # t
         /\ tasks[s].kind = "resolve" /\ tasks[t].kind = "resolve"
         /\ tasks[s].msg_id = tasks[t].msg_id
         /\ StepAt(t, "credit")
         /\ HasCredited(tasks[s], tasks[t].user))
            => users'[tasks[t].user] <= users[tasks[t].user]

C18_NoDoubleSettlement == [][C18_SecondCreditStep]_vars

\* The amount by which the balance write that task is about to make is meant
\* to move the stored balance: the /addcoins amount, the stake taken, or the
\* payout of the winning bet the loop of /resolve is at.
DeltaOf(task) ==
    IF task.kind = "addcoins" THEN task.amount
    ELSE IF task.kind = "on_message" THEN 0 - task.amount
    ELSE Payout(task.rows[task.i].amount, TotalWinning(task.rows, task.choice),
                TotalLosing(task.rows, task.choice))

\* C19: no balance update is lost when handlers interleave: every balance
\* write of a handler (the debit of a stake, the credit of a payout, the
\* adjustment of /addcoins) moves the stored balance by that handler's delta,
\* so that the final balance is the initial one plus the sum of the deltas,
\* provided no value is floored: the stored balance is above 1, so no write
\* before has been raised to 1, and the result is not below 1.
C19_BalanceWriteStep ==
    \A t \in Slots :
        (/\ \/ tasks[t].kind = "addcoins" /\ StepAt(t, "write")
            \/ tasks[t].kind = "on_message" /\ StepAt(t, "deduct")
            \/ tasks[t].kind = "resolve" /\ StepAt(t, "credit")
         /\ tasks[t].user \in DOMAIN users
         /\ users[tasks[t].user] > 1
         /\ users[tasks[t].user] + DeltaOf(tasks[t]) >= 1)
            => users'[tasks[t].user] = users[tasks[t].user] + DeltaOf(tasks[t])

C19_NoLostUpdate == [][C19_BalanceWriteStep]_vars

\* C20: however the reaction-add handler and the DM stake handler interleave,
\* no user has a pending stake for a message on which that user has a stored,
\* unresolved bet.
C20_NoPendingWithBet ==
    \A u \in DOMAIN pending_stakes :
        \A r \in RowsOfKey(bets, pending_stakes[u][1], u) : r.resolved # 0

\* C21: pending_stakes holds one entry per user.  A side reaction on message
\* E2 of a user whose pending stake names another message E1, with no bet of
\* the user on E2, takes the path of a first reaction: the entry becomes
\* (E2, side), nothing else changes.  And a stake that is placed stores
\* exactly one new row, on the message and side the pending entry named when
\* the DM arrived, with the amount of the reply.
C21_PendingReplaced ==
    /\ (/\ last.kind = "reaction_add"
        /\ last.task.solo
        /\ last.task.choice \in Choices
        /\ last.task.user \in DOMAIN last.task.pre.pending_stakes
        /\ last.task.pre.pending_stakes[last.task.user][1] # last.task.msg_id
        /\ RowsOfKey(last.task.pre.bets, last.task.msg_id, last.task.user) = {})
          => /\ last.outcome = "pending"
             /\ pending_stakes =
                   PutPending(last.task.pre.pending_stakes, last.task.user,
                              last.task.msg_id, last.task.choice)
             /\ LedgerAsBefore
    /\ LastSolo("on_message", "placed") =>
          /\ last.task.user \in DOMAIN last.task.pre.pending_stakes
          /\ last.task.pre.pending_stakes[last.task.user]
                = <<last.task.msg_id, last.task.choice>>
          /\ bets = InsertBet(last.task.pre.bets,
                              NewRow(last.task.msg_id, last.task.user,
                                     last.task.choice, last.task.amount))
          /\ last.task.user \notin DOMAIN pending_stakes

\* A user with a pending stake for one message has reacted on the other: the
\* entry names the other message now, and the DM that stakes on it can run.
C21_Witness ==
    /\ LastSolo("reaction_add", "pending")
    /\ last.task.user \in DOMAIN last.task.pre.pending_stakes
    /\ last.task.pre.pending_stakes[last.task.user][1] # last.task.msg_id
    /\ pending_stakes[last.task.user] = <<last.task.msg_id, last.task.choice>>
    /\ \E r \in Replies : ENABLED OnMessagePop(last.task.user, r)

\* C22: a reaction-remove of a user on the message of that user's pending
\* stake, for an emoji other than the side the stake was started with, leaves
\* the pending entry in place.
C22_OtherEmojiKeepsPending ==
    (/\ last.kind = "reaction_remove"
     /\ last.task.user \in DOMAIN last.task.pre.pending_stakes
     /\ last.task.pre.pending_stakes[last.task.user][1] = last.task.msg_id
     /\ last.task.pre.pending_stakes[last.task.user][2] # last.task.choice)
        => /\ last.outcome = "nothing"
           /\ pending_stakes = last.task.pre.pending_stakes

\* C23: after an authorized /addcoins the new balance shown in the reply is
\* the balance stored for the user, which is max(1, old balance + amount).
C23_ReportedIsStored ==
    LastSolo("addcoins", "adjusted") =>
        /\ AddcoinsNewbal(last.task.bal, last.task.amount) = users[last.task.user]
        /\ users[last.task.user] =
              IF BalanceBefore + last.task.amount >= 1
              THEN BalanceBefore + last.task.amount ELSE 1

\* A /resolve of message_id has marked the rows and not yet deleted them.
BetweenMarkAndDelete(message_id) ==
    \E t \in Slots : /\ tasks[t].kind = "resolve"
                     /\ tasks[t].pc = "delete"
                     /\ tasks[t].msg_id = message_id

====
